---- MODULE Spec2Model ----
(***************************************************************************)
(* Model of the 903 song-popularity plot repository:                       *)
(*   src/plot.py          validate_data, normalize_data,                   *)
(*                        create_dual_axis_plot, the __main__ script       *)
(*   src/youtube_data.py  get_video_stats, the __main__ example            *)
(*   src/streamlit_app.py the dashboard script                             *)
(*                                                                         *)
(* A DataFrame is [columns, rows]; a row is [index, cells] where index is  *)
(* the pandas index label (the position in data.csv) and cells maps column *)
(* names to values.  A numeric cell is a float64, and the arithmetic on     *)
(* the columns is IEEE-754 binary64 arithmetic: every quotient, product    *)
(* and difference is rounded to nearest, ties to even, with signed zeros,  *)
(* gradual underflow, overflow to infinity, x/0 = inf and 0/0 = nan.       *)
(***************************************************************************)
EXTENDS Integers, Sequences, FiniteSets, TLC

\* ------------------------------------------------------------------ bounds
MaxRows == 2
MaxIds == 3
MaxViewCount == 1

\* --------------------------------------------------------- program constants
CohortYear == 2024
AnnotateThreshold == 5

\* the reference title of plot.py line 63.  Its two angle brackets are the
\* characters U+300A and U+300B; a string of this module holds ASCII only,
\* so they are written as Python's ascii() writes them.
REF == "\\u300aHey Hey OK!\\u300b"
Titles == {REF, "T1"}
Years == {2023, CohortYear}

\* ------------------------------------------------------------ Python values
\* the values whose truthiness the code tests
PyNone == [type |-> "NoneType", int |-> 0, str |-> ""]
PyInt(n) == [type |-> "int", int |-> n, str |-> ""]
PyStr(x) == [type |-> "str", int |-> 0, str |-> x]
Truthy(v) == \/ v.type = "int" /\ v.int # 0
             \/ v.type = "str" /\ v.str # ""

DefaultPath == PyStr("plot.png")
EmptyPath == PyStr("")
NoPath == PyNone

\* ------------------------------------------------------ natural numbers
\* A float64 significand has 53 bits and does not fit a 32-bit integer, so a
\* natural number is the sequence of its digits in base Radix, most
\* significant first, without leading zeros (zero is <<>>).
LimbBits == 10
Radix == 2 ^ LimbBits

Min(a, b) == IF a < b THEN a ELSE b
Max(a, b) == IF a > b THEN a ELSE b
Abs(x) == IF x < 0 THEN -x ELSE x

Zeros(k) == [i \in 1..k |-> 0]

StripLead(n) ==
    IF \A i \in 1..Len(n) : n[i] = 0 THEN <<>>
    ELSE SubSeq(n, CHOOSE i \in 1..Len(n) :
                       n[i] # 0 /\ \A j \in 1..(i - 1) : n[j] = 0, Len(n))

Pad(n, len) == Zeros(len - Len(n)) \o n

\* the natural below Radix^3 of a digit sequence, and back (n < 2^31)
Digits3(p) == (p[1] * Radix + p[2]) * Radix + p[3]
ToInt(n) == Digits3(Pad(n, 3))
FromInt(n) ==
    StripLead(<<n \div (Radix * Radix * Radix), (n \div (Radix * Radix)) % Radix,
                (n \div Radix) % Radix, n % Radix>>)

\* -1, 0, 1 as a < b, a = b, a > b
CmpN(a, b) ==
    IF Len(a) # Len(b) THEN (IF Len(a) > Len(b) THEN 1 ELSE 0 - 1)
    ELSE IF a = b THEN 0
    ELSE IF \E i \in 1..Len(a) : a[i] > b[i] /\ \A j \in 1..(i - 1) : a[j] = b[j]
    THEN 1 ELSE 0 - 1

\* x + y for x and y of one length: digit i takes a carry when, below it,
\* some digit pair overflows and every pair in between is full
AddPadded(x, y) ==
    LET carry(i) == \E j \in (i + 1)..Len(x) :
                        /\ x[j] + y[j] >= Radix
                        /\ \A k \in (i + 1)..(j - 1) : x[k] + y[k] = Radix - 1
    IN  StripLead([i \in 1..(Len(x) + 1) |->
            IF i = 1 THEN (IF carry(0) THEN 1 ELSE 0)
            ELSE (x[i - 1] + y[i - 1] + (IF carry(i - 1) THEN 1 ELSE 0)) % Radix])

\* a + b
AddN(a, b) == AddPadded(Pad(a, Max(Len(a), Len(b))), Pad(b, Max(Len(a), Len(b))))

\* x - y for x >= y of one length: digit i lends when, below it, some digit
\* of x is less than y's and every pair in between is equal
SubPadded(x, y) ==
    LET borrow(i) == \E j \in (i + 1)..Len(x) :
                         /\ x[j] < y[j]
                         /\ \A k \in (i + 1)..(j - 1) : x[k] = y[k]
    IN  StripLead([i \in 1..Len(x) |->
            (x[i] - y[i] - (IF borrow(i) THEN 1 ELSE 0) + Radix) % Radix])

\* a - b for a >= b
SubN(a, b) == SubPadded(a, Pad(b, Len(a)))

\* a * k for 0 <= k <= Radix: the low digits of the digit products, plus
\* their high digits one place up
MulSmall(a, k) ==
    AddPadded([i \in 1..(Len(a) + 1) |-> IF i = 1 THEN 0 ELSE (a[i - 1] * k) % Radix],
              [i \in 1..(Len(a) + 1) |->
                  IF i > Len(a) THEN 0 ELSE (a[i] * k) \div Radix])

\* number of bits of n
BitLen(n) ==
    IF n = <<>> THEN 0
    ELSE LimbBits * (Len(n) - 1)
         + (CHOOSE k \in 1..LimbBits : 2 ^ (k - 1) <= n[1] /\ n[1] < 2 ^ k)

\* bit i of n, bit 0 the least significant
Bit(n, i) ==
    IF Len(n) - (i \div LimbBits) < 1 THEN 0
    ELSE (n[Len(n) - (i \div LimbBits)] \div (2 ^ (i % LimbBits))) % 2

\* n * 2^k and n \div 2^k
ShiftL(n, k) ==
    IF n = <<>> THEN <<>>
    ELSE MulSmall(n, 2 ^ (k % LimbBits)) \o Zeros(k \div LimbBits)

ShiftR(n, k) ==
    IF Len(n) - (k \div LimbBits) <= 0 THEN <<>>
    ELSE StripLead([i \in 1..(Len(n) - (k \div LimbBits)) |->
             (n[i] \div (2 ^ (k % LimbBits)))
             + (IF i > 1
                THEN (n[i - 1] % (2 ^ (k % LimbBits))) * (2 ^ (LimbBits - (k % LimbBits)))
                ELSE 0)])

\* number of zero bits below the lowest 1 bit of n # 0
TrailingZeros(n) ==
    CHOOSE t \in 0..BitLen(n) : Bit(n, t) = 1 /\ \A i \in 0..(t - 1) : Bit(n, i) = 0

\* the digits of n above its lowest cut digits, as an integer
Leading(n, cut) == IF Len(n) <= cut THEN 0 ELSE ToInt(SubSeq(n, 1, Len(n) - cut))

\* r \div b, known to lie in lo..hi
DigitBetween(r, b, lo, hi) ==
    CHOOSE q \in lo..hi :
        /\ CmpN(MulSmall(b, q), r) <= 0
        /\ CmpN(MulSmall(b, q + 1), r) > 0

\* r \div b given the leading digits rt of r and bt of b, which bound it
DigitNear(r, b, rt, bt) ==
    DigitBetween(r, b, rt \div (bt + 1), Min(Radix - 1, (rt + 1) \div bt))

\* r \div b for r < b * Radix
QuotientDigit(r, b) ==
    DigitNear(r, b, Leading(r, Max(0, Len(b) - 2)), Leading(b, Max(0, Len(b) - 2)))

\* one step of long division by b: the remainder r, extended by the next
\* digit of the dividend, gives the digit g of the quotient q
Reduce(r, q, b, g) == <<SubN(r, MulSmall(b, g)), Append(q, g)>>
DivStepOn(r, q, b) == Reduce(r, q, b, QuotientDigit(r, b))
DivStep(st, digit, b) == DivStepOn(StripLead(Append(st[1], digit)), st[2], b)

\* long division by b of the digits i, i + 1, ... of d, st = <<r, q>> being
\* the remainder and the quotient of the digits before them
RECURSIVE LongDivFrom(_, _, _, _)
LongDivFrom(st, d, i, b) ==
    IF i > Len(d) THEN st ELSE LongDivFrom(DivStep(st, d[i], b), d, i + 1, b)

\* <<d \div b, d % b>>
QuotientRemainder(st) == <<StripLead(st[2]), st[1]>>
LongDiv(d, b) == QuotientRemainder(LongDivFrom(<<<<>>, <<>>>>, d, 1, b))

\* ------------------------------------------------------------ float values
\* A float64 is [k, s, m, e]: k is "num", "inf" or "nan" and s the sign (1
\* or -1). A finite nonzero value is s * m * 2^e with m an odd natural of at
\* most Precision bits; zero is m = <<>>, e = 0 and keeps its sign.
Precision == 53
MaxExponent == 1023
MinExponent == 0 - 1022

Zero(s) == [k |-> "num", s |-> s, m |-> <<>>, e |-> 0]
NaN == [k |-> "nan", s |-> 1, m |-> <<>>, e |-> 0]
Inf == [k |-> "inf", s |-> 1, m |-> <<>>, e |-> 0]
NegInf == [k |-> "inf", s |-> 0 - 1, m |-> <<>>, e |-> 0]
Infinity(s) == IF s = 1 THEN Inf ELSE NegInf

IsZero(x) == x.k = "num" /\ x.m = <<>>

\* exponent of the leading bit of a finite nonzero x
Lead(x) == x.e + BitLen(x.m) - 1

\* s * n * 2^x for n with t trailing zero bits
Normal(s, n, x, t) == [k |-> "num", s |-> s, m |-> ShiftR(n, t), e |-> x + t]

\* s * n * 2^x for n of at most Precision bits, x >= MinExponent - 52
Finite(s, n, x) ==
    IF n = <<>> THEN Zero(s)
    ELSE IF x + BitLen(n) - 1 > MaxExponent THEN Infinity(s)
    ELSE Normal(s, n, x, TrailingZeros(n))

\* how many low bits of n * 2^x a float64 cannot hold (gradual underflow
\* below MinExponent)
Dropped(n, x) ==
    IF x + BitLen(n) - 1 >= MinExponent THEN BitLen(n) - Precision
    ELSE (MinExponent - Precision + 1) - x

\* whether (n + f) * 2^x rounds up when its low drop bits go: to nearest,
\* ties to even
RoundsUp(n, drop, sticky) ==
    /\ Bit(n, drop - 1) = 1
    /\ \/ sticky
       \/ \E i \in 0..(Min(drop - 1, BitLen(n)) - 1) : Bit(n, i) = 1
       \/ Bit(ShiftR(n, drop), 0) = 1

RoundAt(s, n, x, sticky, drop) ==
    IF drop <= 0 THEN Finite(s, n, x)
    ELSE Finite(s,
                AddN(ShiftR(n, drop), IF RoundsUp(n, drop, sticky) THEN <<1>> ELSE <<>>),
                x + drop)

\* the float64 nearest to s * (n + f) * 2^x, for a natural n and 0 <= f < 1
\* with f > 0 iff sticky: round to nearest, ties to even, with gradual
\* underflow and overflow to infinity
Round(s, n, x, sticky) ==
    IF n = <<>> THEN Zero(s) ELSE RoundAt(s, n, x, sticky, Dropped(n, x))

\* the float64 of the integer n
Num(n) == Round(IF n < 0 THEN 0 - 1 ELSE 1, FromInt(Abs(n)), 0, FALSE)

notna(x) == x.k # "nan"

\* -1, 0, 1 as |a| < |b|, |a| = |b|, |a| > |b|, for finite a and b
CmpMagnitude(a, b) ==
    IF IsZero(a) \/ IsZero(b)
    THEN (IF IsZero(a) /\ IsZero(b) THEN 0 ELSE IF IsZero(a) THEN 0 - 1 ELSE 1)
    ELSE IF Lead(a) # Lead(b) THEN (IF Lead(a) > Lead(b) THEN 1 ELSE 0 - 1)
    ELSE CmpN(ShiftL(a.m, a.e - Min(a.e, b.e)), ShiftL(b.m, b.e - Min(a.e, b.e)))

\* the place of x on the line: -2, -1, 0, 1, 2 for -inf, negative, zero,
\* positive, inf
Rank(x) == IF x.k = "inf" THEN 2 * x.s ELSE IF IsZero(x) THEN 0 ELSE x.s

\* -1, 0, 1 as a < b, a = b, a > b, for a and b other than NaN
Cmp(a, b) ==
    IF Rank(a) # Rank(b) THEN (IF Rank(a) > Rank(b) THEN 1 ELSE 0 - 1)
    ELSE IF a.k = "inf" \/ IsZero(a) THEN 0
    ELSE a.s * CmpMagnitude(a, b)

\* a > b (False when either side is NaN)
Greater(a, b) == a.k # "nan" /\ b.k # "nan" /\ Cmp(a, b) = 1

\* the float64 of s * (q + r / b) * 2^x, qr = <<q, r>>
RoundQuotient(s, qr, x) == Round(s, qr[1], x, qr[2] # <<>>)

\* a / b for finite nonzero a and b: the significand of a, with j digits
\* added to get a quotient of more than Precision bits, is divided by b's
DivideScaled(a, b, j) ==
    RoundQuotient(a.s * b.s, LongDiv(a.m \o Zeros(j), b.m), a.e - b.e - LimbBits * j)

\* the digits a quotient is computed to
QuotientDigits == 8

\* a / b on float64 columns (a zero divisor gives inf or NaN, no exception)
Quotient(a, b) ==
    IF a.k = "nan" \/ b.k = "nan" THEN NaN
    ELSE IF a.k = "inf" THEN (IF b.k = "inf" THEN NaN ELSE Infinity(a.s * b.s))
    ELSE IF b.k = "inf" THEN Zero(a.s * b.s)
    ELSE IF IsZero(b) THEN (IF IsZero(a) THEN NaN ELSE Infinity(a.s * b.s))
    ELSE IF IsZero(a) THEN Zero(a.s * b.s)
    ELSE DivideScaled(a, b, Len(b.m) + QuotientDigits - 1 - Len(a.m))

\* x * 100
Times100(x) ==
    IF x.k # "num" \/ IsZero(x) THEN x
    ELSE Round(x.s, MulSmall(x.m, 100), x.e, FALSE)

\* -x
Neg(x) == IF x.k = "nan" THEN x ELSE [x EXCEPT !.s = 0 - x.s]

\* sa * na * 2^x + sb * nb * 2^x
AddAligned(sa, na, sb, nb, x) ==
    IF sa = sb THEN Round(sa, AddN(na, nb), x, FALSE)
    ELSE IF CmpN(na, nb) = 0 THEN Zero(1)
    ELSE IF CmpN(na, nb) > 0 THEN Round(sa, SubN(na, nb), x, FALSE)
    ELSE Round(sb, SubN(nb, na), x, FALSE)

\* big + small when small is less than a quarter of the last bit of big:
\* big, widened by t bits, plus or minus a fraction of its last bit
AddFar(big, small, t) ==
    Round(big.s,
          IF big.s = small.s THEN ShiftL(big.m, t) ELSE SubN(ShiftL(big.m, t), <<1>>),
          big.e - t, TRUE)

\* a + b
Add(a, b) ==
    IF a.k = "nan" \/ b.k = "nan" THEN NaN
    ELSE IF a.k = "inf" THEN (IF b.k = "inf" /\ b.s # a.s THEN NaN ELSE a)
    ELSE IF b.k = "inf" THEN b
    ELSE IF IsZero(a) /\ IsZero(b) THEN Zero(IF a.s = b.s THEN a.s ELSE 1)
    ELSE IF IsZero(a) THEN b
    ELSE IF IsZero(b) THEN a
    ELSE IF Lead(a) - Lead(b) > Precision + 2
    THEN AddFar(a, b, Precision + 3 - BitLen(a.m))
    ELSE IF Lead(b) - Lead(a) > Precision + 2
    THEN AddFar(b, a, Precision + 3 - BitLen(b.m))
    ELSE AddAligned(a.s, ShiftL(a.m, a.e - Min(a.e, b.e)),
                    b.s, ShiftL(b.m, b.e - Min(a.e, b.e)), Min(a.e, b.e))

\* a - b
Difference(a, b) == Add(a, Neg(b))

\* abs(x)
FloatAbs(x) == IF x.k = "nan" THEN x ELSE [x EXCEPT !.s = 1]

\* ------------------------------------------------- the values of the inputs
\* the metric values a cell of data.csv may hold, besides being empty
Counts == {0, 1, 3}
NumCells == {NaN} \cup {Num(n) : n \in Counts}

\* The arithmetic on those values is computed once and looked up afterwards
\* (@@ makes a table explicit); any other operand is computed when it is met.
NoTable == [x \in {} |-> x]
Image(f) == {f[x] : x \in DOMAIN f}
Pairs(S) == S \X S
WithAbs(S) == S \cup {FloatAbs(x) : x \in S}
Memo(table, x, value) == IF x \in DOMAIN table THEN table[x] ELSE value

Quotients == [p \in Pairs(NumCells) |-> Quotient(p[1], p[2])] @@ NoTable
Products == [x \in Image(Quotients) |-> Times100(x)] @@ NoTable
Differences == [p \in Pairs(Image(Products)) |-> Difference(p[1], p[2])] @@ NoTable
Comparisons ==
    [p \in (NumCells \cup WithAbs(Image(Differences)))
            \X (NumCells \cup {Num(AnnotateThreshold)})
        |-> Greater(p[1], p[2])] @@ NoTable

\* a / b
Div(a, b) == Memo(Quotients, <<a, b>>, Quotient(a, b))

\* x * 100
Mul100(x) == Memo(Products, x, Times100(x))

\* a - b
Sub(a, b) == Memo(Differences, <<a, b>>, Difference(a, b))

\* a > b
Gt(a, b) == Memo(Comparisons, <<a, b>>, Greater(a, b))

\* x > 0 as pandas evaluates it on a column (False for NaN)
GtZero(x) == Gt(x, Zero(1))

\* ------------------------------------------------------------- DataFrames
RequiredColumns == {"Title", "view per day", "Total", "Year"}
DerivedColumns == {"normalized_views", "normalized_votes", "proportion_difference"}

Range(s) == {s[i] : i \in 1..Len(s)}

EmptyFrame == [columns |-> {}, rows |-> <<>>]

\* pandas index labels are 0, 1, ...; NoIndex stands for "no row"
NoIndex == 0 - 1

\* df[df['Year'] == 2024]: the rows of that year, in order, index labels kept
year_filter(df) ==
    [df EXCEPT !.rows = SelectSeq(df.rows, LAMBDA r : r.cells["Year"] = CohortYear)]

\* --------------------------------------------------- plot.py: validate_data
\* mutant of complete_row: the vote total is not looked at
complete_row_views_only(r) ==
    /\ notna(r.cells["view per day"])
    /\ GtZero(r.cells["view per day"])

\* lines 45-50: both metrics non-null and greater than 0
complete_row(r) ==
    /\ notna(r.cells["view per day"])
    /\ notna(r.cells["Total"])
    /\ GtZero(r.cells["view per day"])
    /\ GtZero(r.cells["Total"])

\* whether the sequence s is ordered by 'view per day', largest first
Descending(s) ==
    \A i \in 1..Len(s) : \A j \in 1..Len(s) :
        i < j => ~Gt(s[j].cells["view per day"], s[i].cells["view per day"])

Ascending(s) ==
    \A i \in 1..Len(s) : \A j \in 1..Len(s) :
        i < j => ~Gt(s[i].cells["view per day"], s[j].cells["view per day"])

\* the arrangements of the rows of s
Arrangements(s) ==
    {p \in [1..Len(s) -> Range(s)] : \A i, j \in 1..Len(s) : i # j => p[i] # p[j]}

\* mutant of sort_values: ascending=False left out
sort_ascending(rows) == {p \in Arrangements(rows) : Ascending(p)}

\* line 52: df.sort_values('view per day', ascending=False).  No kind= is
\* given, so pandas sorts with numpy's default quicksort, which is not a
\* stable sort: rows with equal keys may come out in any relative order,
\* depending on the numpy build and CPU.  The result is therefore a set.
sort_values(rows) == {p \in Arrangements(rows) : Descending(p)}

\* validate_data(df): the set of possible results [exc, df]
validate_data(df) ==
    IF ~(RequiredColumns \subseteq df.columns)
    THEN {[exc |-> "ValueError", df |-> EmptyFrame]}
    ELSE LET cohort == year_filter(df)
             kept == [cohort EXCEPT !.rows = SelectSeq(cohort.rows, complete_row)]
         IN  {[exc |-> "none", df |-> [kept EXCEPT !.rows = s]] :
                  s \in sort_values(kept.rows)}

\* -------------------------------------------------- plot.py: normalize_data
\* mutant of reference_rows: no title test, the first row is the reference
reference_rows_any_title(df) == df.rows

\* line 63: df[df['Title'] == REF]
reference_rows(df) == SelectSeq(df.rows, LAMBDA r : r.cells["Title"] = REF)

\* mutant of percent_of: the factor 100 left out
fraction_of(value, reference) == Div(value, reference)

\* lines 71-72: (value / reference) * 100
percent_of(value, reference) == Mul100(Div(value, reference))

\* lines 71-75 for one row
derive_row(r, reference_views, reference_votes) ==
    LET nviews == percent_of(r.cells["view per day"], reference_views)
        nvotes == percent_of(r.cells["Total"], reference_votes)
    IN  [r EXCEPT !.cells =
            [c \in (DOMAIN r.cells) \cup DerivedColumns |->
                IF c = "normalized_views" THEN nviews
                ELSE IF c = "normalized_votes" THEN nvotes
                ELSE IF c = "proportion_difference" THEN Sub(nviews, nvotes)
                ELSE r.cells[c]]]

\* normalize_data(df): [exc, df, ref].  df is the argument object after the
\* call: the three columns are assigned on it in place and it is returned.
normalize_data(df) ==
    IF "Title" \notin df.columns
    THEN [exc |-> "KeyError", df |-> df, ref |-> NoIndex]
    ELSE IF Len(reference_rows(df)) = 0
    THEN [exc |-> "IndexError", df |-> df, ref |-> NoIndex]
    ELSE IF ~({"view per day", "Total"} \subseteq df.columns)
    THEN [exc |-> "KeyError", df |-> df, ref |-> NoIndex]
    ELSE LET reference_song == reference_rows(df)[1]
             reference_views == reference_song.cells["view per day"]
             reference_votes == reference_song.cells["Total"]
         IN  [exc |-> "none",
              df |-> [columns |-> df.columns \cup DerivedColumns,
                      rows |-> [i \in 1..Len(df.rows) |->
                          derive_row(df.rows[i], reference_views, reference_votes)]],
              ref |-> reference_song.index]

\* ------------------------------------------- plot.py: create_dual_axis_plot
Column(df, c) == [i \in 1..Len(df.rows) |-> df.rows[i].cells[c]]

\* lines 143-152: the difference label drawn above bar group i
Threshold == Num(AnnotateThreshold)

difference_label(diff) ==
    [color |-> IF Gt(diff, Zero(1)) THEN "green" ELSE "red",
     drawn |-> Gt(FloatAbs(diff), Threshold),
     diff  |-> diff]

\* the outcome of a call that drew nothing
NoChart(exc) ==
    [exc |-> exc, ret |-> PyNone, eligible |-> EmptyFrame, derived |-> EmptyFrame,
     ref |-> NoIndex, views_bars |-> <<>>, votes_bars |-> <<>>, xticks |-> <<>>,
     xorder |-> <<>>, labels |-> <<>>, saved |-> {}, shown |-> FALSE,
     logged |-> IF exc = "not called" THEN "" ELSE exc]

\* lines 155-157: if output_path: plt.savefig(output_path); None and the
\* empty string are falsy
saved_files(output_path) == IF Truthy(output_path) THEN {output_path.str} ELSE {}

\* lines 92-159 on the result n of normalize_data; the function has no return
\* statement, so the caller receives None
draw(eligible, n, output_path) ==
    [exc |-> "none", ret |-> PyNone, eligible |-> eligible, derived |-> n.df,
     ref |-> n.ref,
     views_bars |-> Column(n.df, "normalized_views"),
     votes_bars |-> Column(n.df, "normalized_votes"),
     xticks |-> Column(n.df, "Title"),
     xorder |-> [i \in 1..Len(n.df.rows) |-> n.df.rows[i].index],
     labels |-> [i \in 1..Len(n.df.rows) |->
                    difference_label(n.df.rows[i].cells["proportion_difference"])],
     saved |-> saved_files(output_path), shown |-> TRUE, logged |-> ""]

\* create_dual_axis_plot(df, output_path): the set of possible outcomes.
\* Any exception of lines 88-159 is logged and raised again (161-163).
create_dual_axis_plot(df, output_path) ==
    {IF v.exc # "none" THEN NoChart(v.exc)
     ELSE LET n == normalize_data(v.df)
          IN  IF n.exc # "none" THEN [NoChart(n.exc) EXCEPT !.eligible = v.df]
              ELSE draw(v.df, n, output_path)
     : v \in validate_data(df)}

\* ------------------------------------------ youtube_data.py: get_video_stats
\* the day the program runs, the days a video may have been published on,
\* and the days from each to the day the program runs (2024 has 366 days)
Today == "2025-01-02"
PublishDates == {"2024-01-01", Today}
DaysSince == [d \in PublishDates |-> IF d = Today THEN 0 ELSE 367]

\* what the YouTube Data API does for one request
ApiOutcomes ==
    {[kind |-> "network error", viewCount |-> 0, date |-> ""],
     [kind |-> "no items", viewCount |-> 0, date |-> ""],
     [kind |-> "malformed", viewCount |-> 0, date |-> ""]}
    \cup {[kind |-> "ok", viewCount |-> n, date |-> d] :
              n \in 0..MaxViewCount, d \in PublishDates}

\* lines 20-39: the body of the try block: [exc, val, printed]
request_stats(api) ==
    IF api.kind = "network error"
    THEN [exc |-> "HttpError", val |-> <<>>, printed |-> <<>>]
    ELSE IF api.kind = "no items"
    THEN [exc |-> "ValueError", val |-> <<>>, printed |-> <<>>]
    ELSE IF api.kind = "malformed"
    THEN [exc |-> "KeyError", val |-> <<>>, printed |-> <<>>]
    ELSE [exc |-> "none", val |-> <<PyInt(api.viewCount), PyStr(api.date)>>,
          printed |-> <<>>]

\* mutant of handle_exception: no except clause, the exception goes on
propagate_exception(r) == r

\* lines 41-43: except Exception: print the error, return None, None
handle_exception(r) ==
    IF r.exc # "none"
    THEN [exc |-> "none", val |-> <<PyNone, PyNone>>,
          printed |-> <<"Error fetching video data">>]
    ELSE r

\* get_video_stats(video_id) given what the API does: [exc, val, printed],
\* exc being the exception that leaves the function
get_video_stats(api) == handle_exception(request_stats(api))

Unavailable(r) == r.exc = "none" /\ r.val = <<PyNone, PyNone>>

\* lines 50-53: if views and date: three prints, the last of them of
\* round(views / <days since the upload>)
print_stats(views, date) ==
    IF ~(Truthy(views) /\ Truthy(date)) THEN [exc |-> "none", printed |-> <<>>]
    ELSE IF DaysSince[date.str] = 0
    THEN [exc |-> "ZeroDivisionError", printed |-> <<"Views", "Upload Date">>]
    ELSE [exc |-> "none", printed |-> <<"Views", "Upload Date", "Views per day">>]

\* the two values of line 48 are printed, unless the call has raised
unpack2(r) ==
    IF r.exc # "none" THEN [exc |-> r.exc, printed |-> <<>>]
    ELSE print_stats(r.val[1], r.val[2])

\* lines 46-53, python youtube_data.py, r being what get_video_stats returns
example_usage(api, r) ==
    [ran |-> TRUE, api |-> api, r |-> r,
     exc |-> unpack2(r).exc, printed |-> r.printed \o unpack2(r).printed]

NotRun ==
    [ran |-> FALSE, api |-> [kind |-> "not called", viewCount |-> 0, date |-> ""],
     r |-> [exc |-> "none", val |-> <<>>, printed |-> <<>>],
     exc |-> "none", printed |-> <<>>]

\* -------------------------------------------------------- streamlit_app.py
\* the names youtube_data.py binds at module level (its lines 1, 2 and 4)
YoutubeData == {"build", "datetime", "get_video_stats"}

\* line 4: from youtube_data import get_video_stats, write_to_csv
import_youtube_data(names) ==
    IF {"get_video_stats", "write_to_csv"} \subseteq names THEN "none"
    ELSE "ImportError"

\* line 43: df[df['youtube_id'].notna()]['youtube_id']
youtube_ids(df) ==
    LET linked == SelectSeq(df.rows, LAMBDA r : notna(r.cells["youtube_id"]))
    IN  [i \in 1..Len(linked) |-> linked[i].cells["youtube_id"].s]

\* =================================================================== state
VARIABLES
    csv,         \* the table stored in data.csv
    op,          \* the entry point that ran: "none", "plot", "dashboard", "main"
    output_path, \* the output_path of the last create_dual_axis_plot call
    passed,      \* the frame the entry point handed to the pipeline, as it was then
    held,        \* that same frame object after the entry point has run
    prenorm,     \* __main__ line 173: how normalize_data(df) ended ("n/a" elsewhere)
    out,         \* the outcome of the last create_dual_axis_plot call
    exc,         \* the exception that left the entry point ("none" if none)
    pressed,     \* the dashboard script was run by a press of the update button
    results,     \* the lookups the refresh loop has made: [video_id, r]
    store,       \* the rows the refresh loop has written to the store
    example      \* the run of youtube_data.py's __main__

plotVars == <<op, output_path, passed, held, prenorm, out, exc>>
refreshVars == <<pressed, results, store, example>>
vars == <<csv, plotVars, refreshVars>>

\* ------------------------------------------------------------------ inputs
SongCells ==
    {[c \in RequiredColumns |->
        IF c = "Title" THEN t ELSE IF c = "view per day" THEN v
        ELSE IF c = "Total" THEN tot ELSE y] :
     t \in Titles, v \in NumCells, tot \in NumCells, y \in Years}

\* rows of a table that has no 'Total' column
PartialCells ==
    {[c \in RequiredColumns \ {"Total"} |->
        IF c = "Title" THEN t ELSE IF c = "view per day" THEN v ELSE y] :
     t \in Titles, v \in NumCells, y \in Years}

\* the table with the given columns whose rows hold the cells f[1], f[2], ...
Frame(columns, f) ==
    [columns |-> columns,
     rows |-> [i \in 1..Len(f) |-> [index |-> i - 1, cells |-> f[i]]]]

VideoIds == {"a", "b"}
IdCells == {NaN} \cup {[k |-> "str", s |-> x] : x \in VideoIds}

LinkedCells ==
    {[c \in RequiredColumns \cup {"youtube_id"} |->
        IF c = "Title" THEN "T1" ELSE IF c = "Year" THEN CohortYear
        ELSE IF c = "youtube_id" THEN id ELSE Num(1)] : id \in IdCells}

InitPlot ==
    /\ op = "none" /\ output_path = NoPath
    /\ passed = EmptyFrame /\ held = EmptyFrame
    /\ prenorm = "n/a" /\ out = NoChart("not called") /\ exc = "none"

InitRefresh ==
    /\ pressed = FALSE /\ results = <<>> /\ store = <<>> /\ example = NotRun

\* the plotting entry points, over every small data.csv
Init ==
    /\ \E n \in 0..MaxRows :
           \/ \E f \in [1..n -> SongCells] : csv = Frame(RequiredColumns, f)
           \/ \E f \in [1..n -> PartialCells] :
                  csv = Frame(RequiredColumns \ {"Total"}, f)
    /\ InitPlot
    /\ InitRefresh

\* the dashboard and youtube_data.py, over every small list of video ids
InitDashboard ==
    /\ \E n \in 0..MaxIds : \E f \in [1..n -> LinkedCells] :
           csv = Frame(RequiredColumns \cup {"youtube_id"}, f)
    /\ InitPlot
    /\ InitRefresh

\* ----------------------------------------------------------------- actions
\* A behaviour is one run of an entry point in a fresh process: each reads
\* data.csv and nothing an earlier run has left.

\* a caller invokes create_dual_axis_plot(df, output_path) on the loaded table
Plot ==
    /\ op = "none"
    /\ \E path \in {DefaultPath, EmptyPath, NoPath} :
       \E o \in create_dual_axis_plot(csv, path) :
          /\ op' = "plot" /\ output_path' = path
          /\ passed' = csv /\ held' = csv
          /\ prenorm' = "n/a" /\ out' = o /\ exc' = o.exc
    /\ UNCHANGED <<csv, refreshVars>>

\* streamlit_app.py is run.  Line 4 asks youtube_data for write_to_csv, a
\* name that module does not bind: the import raises ImportError and the run
\* ends there, before the button of line 41 is read and before the plot of
\* lines 55-61 is made.

\* the dashboard is opened
Dashboard ==
    /\ op = "none"
    /\ import_youtube_data(YoutubeData) # "none"
    /\ op' = "dashboard" /\ exc' = import_youtube_data(YoutubeData)
    /\ pressed' = FALSE
    /\ UNCHANGED <<csv, output_path, passed, held, prenorm, out,
                   results, store, example>>

\* the Update YouTube Statistics button of a displayed dashboard is pressed:
\* Streamlit runs the script again, from its first line
Press ==
    /\ op = "none"
    /\ import_youtube_data(YoutubeData) # "none"
    /\ op' = "dashboard" /\ exc' = import_youtube_data(YoutubeData)
    /\ pressed' = TRUE
    /\ UNCHANGED <<csv, output_path, passed, held, prenorm, out,
                   results, store, example>>

\* plot.py lines 165-178: read data.csv, filter to 2024, normalize_data(df),
\* create_dual_axis_plot(df); any exception is logged and raised again
Main ==
    LET df == year_filter(csv)
        n == normalize_data(df)
    IN  /\ op = "none"
        /\ op' = "main" /\ output_path' = DefaultPath
        /\ passed' = df /\ held' = n.df
        /\ prenorm' = n.exc
        /\ IF n.exc # "none"
           THEN out' = NoChart("not called") /\ exc' = n.exc
           ELSE \E o \in create_dual_axis_plot(n.df, DefaultPath) :
                    out' = o /\ exc' = o.exc
        /\ UNCHANGED <<csv, refreshVars>>

\* youtube_data.py lines 46-53: python youtube_data.py looks one video up
ExampleUsage ==
    /\ ~example.ran
    /\ \E api \in ApiOutcomes : example' = example_usage(api, get_video_stats(api))
    /\ UNCHANGED <<csv, plotVars, pressed, results, store>>

Next == Plot \/ Dashboard \/ Main

NextDashboard == Dashboard \/ Press \/ ExampleUsage

Spec == Init /\ [][Next]_vars

SpecDashboard == InitDashboard /\ [][NextDashboard]_vars

\* ================================================================== claims
\* the frame the last create_dual_axis_plot call was given
Arg == IF op = "main" THEN held ELSE passed

\* validate_data ran to its end in the last call
Validated == op # "none" /\ out.exc \notin {"ValueError", "not called"}

\* the data model's eligibility rule, stated on a row of the input
Positive(x) == x.k \in {"num", "inf"} /\ x.s = 1 /\ (x.k = "inf" \/ x.m # <<>>)

EligibleRecord(r) ==
    /\ r.cells["Year"] = CohortYear
    /\ Positive(r.cells["view per day"])
    /\ Positive(r.cells["Total"])

EligibleInput == {r \in Range(Arg.rows) : EligibleRecord(r)}

Views(r) == r.cells["view per day"]

\* C4: validate_data returns exactly the input records of year 2024 whose
\* vote total and views per day are both present and strictly positive: each
\* of them once, and no other record.
C4_FilterCohortExact ==
    Validated =>
        /\ Range(out.eligible.rows) = EligibleInput
        /\ Len(out.eligible.rows) = Cardinality(EligibleInput)

\* C4 witness: a 2024 record with views but zero or missing votes was dropped,
\* or a 2023 record with both metrics positive was dropped, next to a record
\* that was kept.
C4_Witness ==
    /\ Validated
    /\ Len(out.eligible.rows) = 1
    /\ \E r \in Range(Arg.rows) :
          /\ r \notin Range(out.eligible.rows)
          /\ GtZero(Views(r))
          /\ \/ r.cells["Year"] = CohortYear /\ IsZero(r.cells["Total"])
             \/ r.cells["Year"] # CohortYear /\ GtZero(r.cells["Total"])

\* C5 as stated: the output of validate_data is ordered by views per day,
\* largest first, rows with equal views per day keep their order from the
\* input, and the chart's x-axis uses that order.
C5_StableDescending ==
    Validated =>
        \A i, j \in 1..Len(out.eligible.rows) :
            i < j =>
                LET a == out.eligible.rows[i]
                    b == out.eligible.rows[j]
                IN  \/ Gt(Views(a), Views(b))
                    \/ Views(a) = Views(b) /\ a.index < b.index

\* C5 amended: the output of validate_data is ordered by views per day,
\* largest first (no later row has more views per day than an earlier one),
\* and the chart's x-axis lists the rows in that same order; the order among
\* rows with equal views per day is not fixed.
C5_DescendingOrder ==
    Validated =>
        /\ \A i, j \in 1..Len(out.eligible.rows) :
              i < j => \/ Gt(Views(out.eligible.rows[i]), Views(out.eligible.rows[j]))
                       \/ Views(out.eligible.rows[i]) = Views(out.eligible.rows[j])
        /\ out.exc = "none" =>
              /\ Len(out.xorder) = Len(out.eligible.rows)
              /\ \A i \in 1..Len(out.xorder) :
                    /\ out.xorder[i] = out.eligible.rows[i].index
                    /\ out.xticks[i] = out.eligible.rows[i].cells["Title"]

\* C5 witness: a chart was drawn of two rows that the sort had to exchange.
C5_Witness ==
    /\ op # "none" /\ out.exc = "none"
    /\ Len(out.eligible.rows) = 2
    /\ out.eligible.rows[1].index > out.eligible.rows[2].index
    /\ Gt(Views(out.eligible.rows[1]), Views(out.eligible.rows[2]))

\* the reference row of the last chart, among its derived rows
ReferenceRows == {r \in Range(out.derived.rows) : r.index = out.ref}

\* the float64 33.33333333333333 = 0x1.0aaaaaaaaaaaap+5, which is what
\* (1 / 3) * 100 is in float64 arithmetic
ThirdOfHundred ==
    [k |-> "num", s |-> 1, m |-> <<2, 85, 341, 341, 341, 341>>, e |-> 0 - 46]

\* C2: whenever the pipeline normalizes an eligible cohort successfully, the
\* reference record, which is a record with the configured title, has
\* normalized_views = 100, normalized_votes = 100 and
\* proportion_difference = 0.
C2_ReferenceIsHundred ==
    (op # "none" /\ out.exc = "none") =>
        /\ Cardinality(ReferenceRows) = 1
        /\ \A r \in ReferenceRows :
              /\ r.cells["Title"] = REF
              /\ r.cells["normalized_views"] = Num(100)
              /\ r.cells["normalized_votes"] = Num(100)
              /\ r.cells["proportion_difference"] = Num(0)

\* C2 witness: a chart of two records was drawn in which the other record
\* has a third of the reference's views per day, a quotient that float64
\* rounds, and three times its votes.
C2_Witness ==
    /\ op # "none" /\ out.exc = "none"
    /\ Cardinality(ReferenceRows) = 1
    /\ \E r \in Range(out.derived.rows) :
          /\ r.index # out.ref
          /\ r.cells["normalized_views"] = ThirdOfHundred
          /\ r.cells["normalized_votes"] = Num(300)

\* no eligible record of the frame given to the call has the reference title
NoEligibleReference ==
    /\ op # "none"
    /\ RequiredColumns \subseteq Arg.columns
    /\ \A r \in EligibleInput : r.cells["Title"] # REF

DrewNothing ==
    /\ out.derived = EmptyFrame
    /\ out.views_bars = <<>> /\ out.votes_bars = <<>> /\ out.xticks = <<>>
    /\ out.labels = <<>> /\ out.saved = {} /\ ~out.shown

\* C6 as stated: when no eligible record has the reference title, the render
\* call fails with ReferenceNotFoundError, which reaches the caller, and no
\* derived records are produced and nothing is rendered or written.
C6_ReferenceNotFoundError ==
    (NoEligibleReference /\ out.exc # "not called") =>
        /\ out.exc = "ReferenceNotFoundError"
        /\ exc = "ReferenceNotFoundError"
        /\ DrewNothing

\* C6 amended: when no eligible record has the reference title, the render
\* call fails with IndexError (the code has no ReferenceNotFoundError), which
\* is logged and reaches the caller of the entry point, and the call produces
\* no derived records and renders and writes nothing.
C6_ReferenceMissingRaises ==
    (NoEligibleReference /\ out.exc # "not called") =>
        /\ out.exc = "IndexError"
        /\ out.logged = "IndexError"
        /\ exc = "IndexError"
        /\ DrewNothing

\* C6 witness: the call was given eligible records, none of them with the
\* reference title, and has failed.
C6_Witness ==
    /\ NoEligibleReference
    /\ EligibleInput # {}
    /\ out.exc = "IndexError"

\* C3: the reference is the eligible record with the most views per day
\* (policy max_views), so that a cohort without the hardcoded title is
\* normalized to its top record (scenario A: T1 -> (100, 100, 0), T2 ->
\* (50, 100, -50)).
C3_MaxViewsReference ==
    (Validated /\ EligibleInput # {}) =>
        /\ out.exc = "none"
        /\ \A r \in ReferenceRows : \A q \in Range(out.derived.rows) :
              ~Gt(Views(q), Views(r))

\* C8: called without an output path, create_dual_axis_plot writes no file
\* and returns the chart object; called with a path (a non-empty string), it
\* saves the image there.
C8_ReturnsChart ==
    (op # "none" /\ out.exc = "none") =>
        /\ output_path = NoPath => out.saved = {} /\ out.ret.type = "Figure"
        /\ Truthy(output_path) => out.saved = {output_path.str}

\* C9: the pipeline leaves the frame it is given as it was: same rows, same
\* order, same columns, after every entry point.
C9_InputNotMutated ==
    op # "none" => held = passed

FiniteNonNegative(x) == x.k = "num" /\ (x.s = 1 \/ x.m = <<>>)

\* C10: in every entry point normalize_data is applied only to records that
\* passed validate_data, and every normalized_views and normalized_votes it
\* produces is a finite non-negative number.
C10_NormalizeOnlyEligible ==
    \A df \in {held, out.derived} :
        "normalized_views" \in df.columns =>
            \A r \in Range(df.rows) :
                /\ EligibleRecord(r)
                /\ FiniteNonNegative(r.cells["normalized_views"])
                /\ FiniteNonNegative(r.cells["normalized_votes"])

\* ---------------------------------------------------------- the refresh
\* the identifiers the refresh loop has looked up, in order
VisitedIds == [k \in 1..Len(results) |-> results[k].video_id]

Succeeded(r) == r.exc = "none" /\ ~Unavailable(r)

\* the identifiers whose lookup succeeded, in order
SucceededIds ==
    LET ok == SelectSeq(results, LAMBDA x : Succeeded(x.r))
    IN  [k \in 1..Len(ok) |-> ok[k].video_id]

StoredIds == [i \in 1..Len(store) |-> store[i].video_id]

\* C1: when the update button is pressed, whatever the lookups would return,
\* no exception escapes, the refresh loop looks up every identifier of the
\* table in order, and the store holds exactly one write per lookup that
\* succeeded, in order, and none for a lookup that failed.
C1_RefreshBestEffort ==
    pressed =>
        /\ exc = "none"
        /\ VisitedIds = youtube_ids(csv)
        /\ StoredIds = SucceededIds

====
